---------------------------- MODULE Spec2Model ----------------------------
(***************************************************************************)
(* State machine of the editor session of src/src/editor.rs (Editor::new,  *)
(* Editor::run, Editor::check_bounds, Editor::draw, the two key tables and *)
(* the Drop implementation) together with fn main of src/src/main.rs.      *)
(*                                                                         *)
(* All position fields are u16.  An arithmetic overflow on u16 aborts the  *)
(* thread (panic) when the build has overflow checks (debug profile) and   *)
(* wraps modulo 2^16 when it has not (release profile); the variable       *)
(* overflow_checks is the profile of the build under consideration.        *)
(***************************************************************************)
EXTENDS Integers, Sequences, FiniteSets, TLC

\* ------------------------------------------------------------------ u16
U16 == 65536

Wrap(x) == x % U16

Ovf(x) == x < 0 \/ x >= U16

Max(a, b) == IF a >= b THEN a ELSE b

\* --------------------------------------------------------------- bounds
\* number of characters typed in one session
MaxTyped == 2

\* characters are typed only into a buffer holding fewer characters than this
MaxChars == 8

\* keys are pressed only while cx and vtop are at most this: a wrapped cx or
\* vtop (release profile) is drawn, and the walk back from 65535 is cut
MaxCoord == 24

\* largest prior cx, cy, vtop handed to a stand-alone check_bounds
MaxPos == 4

\* ------------------------------------------------------- the environment
\* Buffers the session is started on (Buffer::from_file in main).
BufScenario == [file |-> <<"notes.txt">>,
                lines |-> << <<"a", "b">>, <<>>, <<"x", "y", "z">> >>]

BufEmpty == [file |-> <<>>, lines |-> <<>>]

BufTwo == [file |-> <<"a.rs">>, lines |-> << <<"a">>, <<>> >>]

BufLong == [file |-> <<>>, lines |-> [i \in 1..20 |-> <<"l">>]]

BufWide == [file |-> <<>>, lines |-> << [i \in 1..18 |-> "w"] >>]

\* (buffer, terminal size <<columns, rows>>) pairs a session is started with
Sessions ==
    { [buffer |-> BufScenario, term |-> <<40, 5>>],
      [buffer |-> BufTwo,      term |-> <<24, 3>>],
      [buffer |-> BufEmpty,    term |-> <<24, 5>>],
      [buffer |-> BufLong,     term |-> <<24, 10>>],
      [buffer |-> BufWide,     term |-> <<16, 4>>],
      [buffer |-> BufWide,     term |-> <<12, 5>>],
      [buffer |-> BufWide,     term |-> <<24, 1>>] }

CharKeys == {"q", "$", "0", "h", "l", "k", "j", "i", "f", "b", "a", "x"}

SpecialKeys == {"Left", "Right", "Up", "Down", "Esc", "Enter"}

\* characters the environment types while the editor is in Insert mode
TypedKeys == {"a", "q"}

KeyEvents ==
    [ev : {"Key"}, code : CharKeys \cup SpecialKeys, kind : {"Press"},
     modifiers : {"NONE"}]
    \cup [ev : {"Key"}, code : {"f", "b", "q", "a"}, kind : {"Press"},
          modifiers : {"CONTROL", "SHIFT"}]
    \cup [ev : {"Key"}, code : {"q", "a"}, kind : {"Release", "Repeat"},
          modifiers : {"NONE"}]

OtherEvents == [ev : {"Resize", "Mouse"}, code : {""}, kind : {""},
                modifiers : {"NONE"}]

Events == KeyEvents \cup OtherEvents

\* ---------------------------------------------------------------- state
VARIABLES
    buffer,           \* Editor.buffer: [file, lines]
    size,             \* Editor.size: <<columns, rows>>
    vtop, vleft,      \* Editor.vtop, Editor.vleft
    cx, cy,           \* Editor.cx, Editor.cy
    mode,             \* Editor.mode
    term,             \* the terminal's real size
    raw_mode,         \* terminal: raw input mode is on
    alt_screen,       \* terminal: the alternate screen is shown
    releases,         \* number of runs of Drop for Editor
    pc,               \* position of the process
    outcome,          \* how main ended: "none", "ok", "err", "panic"
    overflow_checks,  \* build profile: TRUE = overflow panics, FALSE = wraps
    typed,            \* characters typed so far
    prev              \* the last applied action (and, in SpecPair, the one
                      \* before it) and the state they were applied in

vars == <<buffer, size, vtop, vleft, cx, cy, mode, term, raw_mode, alt_screen,
          releases, pc, outcome, overflow_checks, typed, prev>>

editor == <<buffer, size, vtop, vleft, cx, cy, mode>>

\* the Editor value as a record
Self == [buffer |-> buffer, size |-> size, vtop |-> vtop, vleft |-> vleft,
         cx |-> cx, cy |-> cy, mode |-> mode]

NoAction == [t |-> "None", arg |-> ""]

NoPrev == [act |-> NoAction, before |-> NoAction, cx |-> 0, cy |-> 0, vtop |-> 0,
           lines |-> <<>>]

\* ------------------------------------------------- Buffer (collaborator)
\* Buffer::get: the line at an absolute index, none past the end
get(b, i) ==
    IF i < Len(b.lines) THEN [some |-> TRUE, val |-> b.lines[i + 1]]
    ELSE [some |-> FALSE, val |-> <<>>]

\* Buffer::len: the number of lines
len(b) == Len(b.lines)

InsertAt(s, col, c) == SubSeq(s, 1, col) \o <<c>> \o SubSeq(s, col + 1, Len(s))

\* Buffer::insert(x, y, c): one character at column x of line y; a position
\* outside the buffer leaves it as it is
insert(b, x, y, c) ==
    IF y < Len(b.lines) /\ x <= Len(b.lines[y + 1])
    THEN [b EXCEPT !.lines[y + 1] = InsertAt(b.lines[y + 1], x, c)]
    ELSE b

RECURSIVE Chars(_)
Chars(ls) == IF ls = <<>> THEN 0 ELSE Len(Head(ls)) + Chars(Tail(ls))

\* ------------------------------------------------------ Editor: geometry
\* Each operator that computes on u16 gives its value (v) and whether an
\* executed operation overflowed (ovf).

vwidth(e) == e.size[1]

vheight(e) == [v |-> Wrap(e.size[2] - 2), ovf |-> Ovf(e.size[2] - 2)]

viewport_line(e, n) ==
    LET buffer_line_n == e.vtop + n
        r == get(e.buffer, Wrap(buffer_line_n))
    IN [some |-> r.some, val |-> r.val, ovf |-> Ovf(buffer_line_n)]

line_length(e) ==
    LET line == viewport_line(e, e.cy)
    IN [v |-> IF line.some THEN Wrap(Len(line.val)) ELSE 0, ovf |-> line.ovf]

buffer_line(e) == [v |-> Wrap(e.vtop + e.cy), ovf |-> Ovf(e.vtop + e.cy)]

\* -------------------------------------------------- Editor::check_bounds
\* check_bounds without the else branch of lines 148-150: cx is left alone
\* when the line is empty or absent
check_bounds_no_else(e) ==
    LET l == line_length(e)
        cx1 == IF e.cx >= l.v /\ l.v > 0 THEN l.v - 1 ELSE e.cx
        wide == cx1 >= vwidth(e)
        cx2 == IF wide THEN Wrap(vwidth(e) - 1) ELSE cx1
        line_on_buffer == e.cy + e.vtop
        past == Wrap(line_on_buffer) >= len(e.buffer)
        d1 == Wrap(len(e.buffer)) - e.vtop
        d2 == Wrap(d1) - 1
    IN [e |-> [e EXCEPT !.cx = cx2, !.cy = IF past THEN Wrap(d2) ELSE e.cy],
        ovf |-> \/ l.ovf
                \/ wide /\ Ovf(vwidth(e) - 1)
                \/ Ovf(line_on_buffer)
                \/ past /\ (Ovf(d1) \/ Ovf(d2)),
        quit |-> FALSE]

check_bounds(e) ==
    LET l == line_length(e)
        cx1 == IF e.cx >= l.v THEN (IF l.v > 0 THEN l.v - 1 ELSE 0) ELSE e.cx
        wide == cx1 >= vwidth(e)
        cx2 == IF wide THEN Wrap(vwidth(e) - 1) ELSE cx1
        line_on_buffer == e.cy + e.vtop
        past == Wrap(line_on_buffer) >= len(e.buffer)
        d1 == Wrap(len(e.buffer)) - e.vtop
        d2 == Wrap(d1) - 1
        cy1 == IF past THEN Wrap(d2) ELSE e.cy
    IN [e |-> [e EXCEPT !.cx = cx2, !.cy = cy1],
        ovf |-> \/ l.ovf
                \/ wide /\ Ovf(vwidth(e) - 1)
                \/ Ovf(line_on_buffer)
                \/ past /\ (Ovf(d1) \/ Ovf(d2)),
        quit |-> FALSE]

\* ------------------------------------------------------ the key tables
Act(t) == [t |-> t, arg |-> ""]

\* the normal table with the modifier guards of lines 254 and 257 left out
handle_normal_event_any_modifier(ev) ==
    IF ev.ev = "Key" /\ ev.kind = "Press" THEN
        CASE ev.code = "q" -> Act("Quit")
          [] ev.code = "$" -> Act("MoveToLineEnd")
          [] ev.code = "0" -> Act("MoveToLineStart")
          [] ev.code \in {"h", "Left"} -> Act("MoveLeft")
          [] ev.code \in {"l", "Right"} -> Act("MoveRight")
          [] ev.code \in {"k", "Up"} -> Act("MoveUp")
          [] ev.code \in {"j", "Down"} -> Act("MoveDown")
          [] ev.code = "i" -> [t |-> "EnterMode", arg |-> "Insert"]
          [] ev.code = "f" -> Act("PageDown")
          [] ev.code = "b" -> Act("PageUp")
          [] OTHER -> NoAction
    ELSE NoAction

handle_normal_event(ev) ==
    IF ev.ev = "Key" /\ ev.kind = "Press" THEN
        CASE ev.code = "q" -> Act("Quit")
          [] ev.code = "$" -> Act("MoveToLineEnd")
          [] ev.code = "0" -> Act("MoveToLineStart")
          [] ev.code \in {"h", "Left"} -> Act("MoveLeft")
          [] ev.code \in {"l", "Right"} -> Act("MoveRight")
          [] ev.code \in {"k", "Up"} -> Act("MoveUp")
          [] ev.code \in {"j", "Down"} -> Act("MoveDown")
          [] ev.code = "i" -> [t |-> "EnterMode", arg |-> "Insert"]
          [] ev.code = "f" /\ ev.modifiers = "CONTROL" -> Act("PageDown")
          [] ev.code = "b" /\ ev.modifiers = "CONTROL" -> Act("PageUp")
          [] OTHER -> NoAction
    ELSE NoAction

\* handle_insert_event in which 'q' leaves the editor as it does in Normal mode
handle_insert_event_q_quits(ev) ==
    IF ev.ev = "Key" /\ ev.kind = "Press" THEN
        CASE ev.code = "Esc" -> [t |-> "EnterMode", arg |-> "Normal"]
          [] ev.code = "q" -> Act("Quit")
          [] ev.code \in CharKeys -> [t |-> "AddChar", arg |-> ev.code]
          [] OTHER -> NoAction
    ELSE NoAction

handle_insert_event(ev) ==
    IF ev.ev = "Key" /\ ev.kind = "Press" THEN
        CASE ev.code = "Esc" -> [t |-> "EnterMode", arg |-> "Normal"]
          [] ev.code \in CharKeys -> [t |-> "AddChar", arg |-> ev.code]
          [] OTHER -> NoAction
    ELSE NoAction

handle_event(e, ev) ==
    IF e.mode = "Normal" THEN handle_normal_event(ev) ELSE handle_insert_event(ev)

\* ----------------------------------- Editor::run: the match on the action
\* [e: the editor afterwards, ovf: an executed operation overflowed,
\*  quit: the loop is left]

\* MoveUp without the scroll of lines 170-174: nothing moves on the first row
MoveUp_no_scroll(e) ==
    [e |-> IF e.cy = 0 THEN e ELSE [e EXCEPT !.cy = Max(e.cy - 1, 0)],
     ovf |-> FALSE, quit |-> FALSE]

\* MoveUp without the test of line 172: the scroll offset is decremented at 0
MoveUp_no_guard(e) ==
    [e |-> IF e.cy = 0
           THEN [e EXCEPT !.vtop = Wrap(e.vtop - 1)]
           ELSE [e EXCEPT !.cy = Max(e.cy - 1, 0)],
     ovf |-> e.cy = 0 /\ Ovf(e.vtop - 1), quit |-> FALSE]

MoveUp(e) ==
    [e |-> IF e.cy = 0
           THEN (IF e.vtop > 0 THEN [e EXCEPT !.vtop = e.vtop - 1] ELSE e)
           ELSE [e EXCEPT !.cy = Max(e.cy - 1, 0)],
     ovf |-> FALSE, quit |-> FALSE]

\* MoveDown scrolling without line 184: cy is left past the last row
MoveDown_no_clamp(e) ==
    LET cy1 == e.cy + 1
        vh == vheight(e)
        scroll == Wrap(cy1) >= vh.v
    IN [e |-> IF scroll
              THEN [e EXCEPT !.vtop = Wrap(e.vtop + 1), !.cy = Wrap(cy1)]
              ELSE [e EXCEPT !.cy = Wrap(cy1)],
        ovf |-> Ovf(cy1) \/ vh.ovf \/ (scroll /\ Ovf(e.vtop + 1)),
        quit |-> FALSE]

MoveDown(e) ==
    LET cy1 == e.cy + 1
        vh == vheight(e)
        scroll == Wrap(cy1) >= vh.v
    IN [e |-> IF scroll
              THEN [e EXCEPT !.vtop = Wrap(e.vtop + 1), !.cy = Wrap(vh.v - 1)]
              ELSE [e EXCEPT !.cy = Wrap(cy1)],
        ovf |-> Ovf(cy1) \/ vh.ovf \/ (scroll /\ (Ovf(e.vtop + 1) \/ Ovf(vh.v - 1))),
        quit |-> FALSE]

\* MoveLeft going to the left edge instead of one column to the left
MoveLeft_to_vleft(e) ==
    [e |-> [e EXCEPT !.cx = e.vleft], ovf |-> FALSE, quit |-> FALSE]

MoveLeft(e) ==
    LET cx1 == Max(e.cx - 1, 0)
    IN [e |-> [e EXCEPT !.cx = IF cx1 < e.vleft THEN e.vleft ELSE cx1],
        ovf |-> FALSE, quit |-> FALSE]

MoveRight(e) ==
    [e |-> [e EXCEPT !.cx = Wrap(e.cx + 1)], ovf |-> Ovf(e.cx + 1), quit |-> FALSE]

PageUp(e) ==
    LET vh == vheight(e)
    IN [e |-> [e EXCEPT !.vtop = Max(e.vtop - vh.v, 0)], ovf |-> vh.ovf, quit |-> FALSE]

PageDown(e) ==
    LET vh == vheight(e)
        below == e.vtop + vh.v
        more == len(e.buffer) > Wrap(below)
        last == Wrap(len(e.buffer)) - 1
    IN [e |-> [e EXCEPT !.vtop = IF more THEN Wrap(below) ELSE Wrap(last)],
        ovf |-> vh.ovf \/ Ovf(below) \/ (~more /\ Ovf(last)),
        quit |-> FALSE]

\* MoveToLineEnd one past the last character
MoveToLineEnd_past(e) ==
    LET l == line_length(e)
    IN [e |-> [e EXCEPT !.cx = l.v], ovf |-> l.ovf, quit |-> FALSE]

MoveToLineEnd(e) ==
    LET l == line_length(e)
    IN [e |-> [e EXCEPT !.cx = Max(l.v - 1, 0)], ovf |-> l.ovf, quit |-> FALSE]

MoveToLineStart(e) == [e |-> [e EXCEPT !.cx = 0], ovf |-> FALSE, quit |-> FALSE]

\* EnterMode that also sends the cursor to the first column
EnterMode_reset_cx(e, new) ==
    [e |-> [e EXCEPT !.mode = new, !.cx = 0], ovf |-> FALSE, quit |-> FALSE]

EnterMode(e, new) == [e |-> [e EXCEPT !.mode = new], ovf |-> FALSE, quit |-> FALSE]

AddChar(e, c) ==
    LET y == buffer_line(e)
    IN [e |-> [e EXCEPT !.buffer = insert(e.buffer, e.cx, y.v, c),
                        !.cx = Wrap(e.cx + 1)],
        ovf |-> y.ovf \/ Ovf(e.cx + 1), quit |-> FALSE]

NewLine(e) ==
    [e |-> [e EXCEPT !.cx = 0, !.cy = Wrap(e.cy + 1)], ovf |-> Ovf(e.cy + 1),
     quit |-> FALSE]

run_match(e, action) ==
    CASE action.t = "Quit" -> [e |-> e, ovf |-> FALSE, quit |-> TRUE]
      [] action.t = "MoveUp" -> MoveUp(e)
      [] action.t = "MoveDown" -> MoveDown(e)
      [] action.t = "MoveLeft" -> MoveLeft(e)
      [] action.t = "MoveRight" -> MoveRight(e)
      [] action.t = "PageUp" -> PageUp(e)
      [] action.t = "PageDown" -> PageDown(e)
      [] action.t = "MoveToLineEnd" -> MoveToLineEnd(e)
      [] action.t = "MoveToLineStart" -> MoveToLineStart(e)
      [] action.t = "EnterMode" -> EnterMode(e, action.arg)
      [] action.t = "AddChar" -> AddChar(e, action.arg)
      [] action.t = "NewLine" -> NewLine(e)
      [] OTHER -> [e |-> e, ovf |-> FALSE, quit |-> FALSE]

\* --------------------------------------------------------- Editor::draw
Digit(d) == CASE d = 0 -> "0" [] d = 1 -> "1" [] d = 2 -> "2" [] d = 3 -> "3"
              [] d = 4 -> "4" [] d = 5 -> "5" [] d = 6 -> "6" [] d = 7 -> "7"
              [] d = 8 -> "8" [] OTHER -> "9"

\* format!("{}", n) of a u16
RECURSIVE Decimal(_)
Decimal(n) == IF n < 10 THEN <<Digit(n)>> ELSE Decimal(n \div 10) \o <<Digit(n % 10)>>

\* format!("{:?}", mode)
DebugName(m) == IF m = "Normal" THEN <<"N", "o", "r", "m", "a", "l">>
                ELSE <<"I", "n", "s", "e", "r", "t">>

UpperChar(c) ==
    CASE c = "o" -> "O" [] c = "r" -> "R" [] c = "m" -> "M" [] c = "a" -> "A"
      [] c = "l" -> "L" [] c = "n" -> "N" [] c = "s" -> "S" [] c = "e" -> "E"
      [] c = "t" -> "T" [] OTHER -> c

to_uppercase(s) == [i \in 1..Len(s) |-> UpperChar(s[i])]

\* the three texts of the status line (editor.rs 113-115)
mode_segment(e) == to_uppercase(<<" ">> \o DebugName(e.mode) \o <<" ">>)

file_segment(e) ==
    <<" ">> \o (IF e.buffer.file = <<>> THEN <<"untitled">> ELSE e.buffer.file)

FileLen(e) ==
    1 + (IF e.buffer.file = <<>> THEN Len("untitled") ELSE Len(e.buffer.file[1]))

pos_segment(e) == <<" ">> \o Decimal(e.cx) \o <<":">> \o Decimal(e.cy) \o <<" ">>

\* let file_width = self.size.0 - mode.len() as u16 - pos.len() as u16 - 2
file_width(e) ==
    LET a == e.size[1] - Wrap(Len(mode_segment(e)))
        b == Wrap(a) - Wrap(Len(pos_segment(e)))
        c == Wrap(b) - 2
    IN [v |-> Wrap(c), ovf |-> Ovf(a) \/ Ovf(b) \/ Ovf(c)]

\* format!("{:<width$}", file, width = file_width as usize), line 129: the
\* number of columns of the printed file segment; the text is padded with
\* spaces up to width and is never cut
file_printed_len(e) == Max(FileLen(e), file_width(e).v)

draw_viewport(e) ==
    LET vh == vheight(e)
    IN [ovf |-> vh.ovf \/ (vh.v > 0 /\ Ovf(e.vtop + vh.v - 1))]

draw_statusline(e) == [ovf |-> file_width(e).ovf \/ Ovf(e.size[2] - 2)]

draw(e) == [ovf |-> draw_viewport(e).ovf \/ draw_statusline(e).ovf]

\* draw reaches a terminal write, which can fail, before it reaches an overflow
draw_writes(e, checks) ==
    \/ ~checks
    \/ ~draw_viewport(e).ovf /\ (vheight(e).v > 0 \/ ~draw_statusline(e).ovf)

\* ------------------------------------------------------------- the session
Init ==
    /\ \E s \in Sessions : buffer = s.buffer /\ term = s.term
    /\ overflow_checks \in BOOLEAN
    /\ size = <<0, 0>> /\ vtop = 0 /\ vleft = 0 /\ cx = 0 /\ cy = 0
    /\ mode = "Normal"
    /\ raw_mode = FALSE /\ alt_screen = FALSE /\ releases = 0
    /\ pc = "new" /\ outcome = "none" /\ typed = 0 /\ prev = NoPrev

Terminal == <<raw_mode, alt_screen, releases>>

Fixed == <<term, overflow_checks>>

\* Editor::new, line 52: terminal::enable_raw_mode()?
EnableRawMode ==
    /\ pc = "new"
    /\ raw_mode' = TRUE /\ pc' = "new_alt"
    /\ UNCHANGED <<editor, Fixed, alt_screen, releases, outcome, typed, prev>>

EnableRawModeErr ==
    /\ pc = "new"
    /\ pc' = "exited" /\ outcome' = "err"
    /\ UNCHANGED <<editor, Fixed, Terminal, typed, prev>>

\* Editor::new, line 54: execute(EnterAlternateScreen)?
EnterAlternateScreen ==
    /\ pc = "new_alt"
    /\ alt_screen' = TRUE /\ pc' = "new_clear"
    /\ UNCHANGED <<editor, Fixed, raw_mode, releases, outcome, typed, prev>>

\* an Err of Editor::new after line 52: no Editor exists, nothing is dropped
new_fails ==
    /\ pc' = "exited" /\ outcome' = "err"
    /\ UNCHANGED <<editor, Fixed, Terminal, typed, prev>>

EnterAlternateScreenErr == pc = "new_alt" /\ new_fails

\* Editor::new, line 55: execute(Clear(All))?
Clear ==
    /\ pc = "new_clear"
    /\ pc' = "new_size"
    /\ UNCHANGED <<editor, Fixed, Terminal, outcome, typed, prev>>

ClearErr == pc = "new_clear" /\ new_fails

\* Editor::new, lines 56-66: terminal::size()? and the Editor value
Size ==
    /\ pc = "new_size"
    /\ size' = term /\ vtop' = 0 /\ vleft' = 0 /\ cx' = 0 /\ cy' = 0
    /\ mode' = "Normal"
    /\ pc' = "check_bounds"
    /\ UNCHANGED <<buffer, Fixed, Terminal, outcome, typed, prev>>

SizeErr == pc = "new_size" /\ new_fails

\* the editor fields after a step of run that gave r
Becomes(r) ==
    /\ buffer' = r.e.buffer /\ size' = r.e.size /\ vtop' = r.e.vtop
    /\ vleft' = r.e.vleft /\ cx' = r.e.cx /\ cy' = r.e.cy /\ mode' = r.e.mode

\* where run goes after a step that gave r
Continue(r, next) ==
    IF overflow_checks /\ r.ovf
    THEN pc' = "drop" /\ outcome' = "panic" /\ UNCHANGED editor
    ELSE IF r.quit
    THEN pc' = "drop" /\ outcome' = "ok" /\ UNCHANGED editor
    ELSE pc' = next /\ outcome' = outcome /\ Becomes(r)

\* run without line 164: the frame is drawn from the state the action left
CheckBounds_skipped ==
    /\ pc = "check_bounds"
    /\ pc' = "draw"
    /\ UNCHANGED <<editor, outcome, Fixed, Terminal, typed, prev>>

\* run, line 164
CheckBounds ==
    /\ pc = "check_bounds"
    /\ Continue(check_bounds(Self), "draw")
    /\ UNCHANGED <<Fixed, Terminal, typed, prev>>

\* run, line 165: self.draw()? succeeds or stops on an overflow
Draw ==
    /\ pc = "draw"
    /\ Continue([e |-> Self, ovf |-> draw(Self).ovf, quit |-> FALSE], "read")
    /\ UNCHANGED <<Fixed, Terminal, typed, prev>>

\* run, line 165: a terminal write of draw fails
DrawErr ==
    /\ pc = "draw"
    /\ draw_writes(Self, overflow_checks)
    /\ pc' = "drop" /\ outcome' = "err"
    /\ UNCHANGED <<editor, Fixed, Terminal, typed, prev>>

\* run, line 166: read()? fails
ReadErr ==
    /\ pc = "read"
    /\ pc' = "drop" /\ outcome' = "err"
    /\ UNCHANGED <<editor, Fixed, Terminal, typed, prev>>

\* run, lines 166-222: read an event, classify it, apply the action
HandleEvent(ev) ==
    /\ pc = "read"
    /\ cx <= MaxCoord /\ vtop <= MaxCoord
    /\ LET action == handle_event(Self, ev)
       IN /\ action.t = "AddChar" => (/\ typed < MaxTyped /\ Chars(buffer.lines) < MaxChars
                                       /\ action.arg \in TypedKeys)
          /\ typed' = IF action.t = "AddChar" THEN typed + 1 ELSE typed
          /\ prev' = [act |-> action, before |-> NoAction, cx |-> cx, cy |-> cy,
                      vtop |-> vtop, lines |-> buffer.lines]
          /\ IF action = NoAction
             THEN pc' = "check_bounds" /\ UNCHANGED <<editor, outcome>>
             ELSE Continue(run_match(Self, action), "check_bounds")
    /\ UNCHANGED <<Fixed, Terminal>>

\* impl Drop for Editor, when main's editor goes out of scope: after run
\* returned Ok or Err, or while a panic unwinds through main.  The results of
\* its three calls are discarded (_ =).
Drop ==
    /\ pc = "drop"
    /\ alt_screen' = FALSE /\ raw_mode' = FALSE /\ releases' = releases + 1
    /\ pc' = "exited"
    /\ UNCHANGED <<editor, Fixed, outcome, typed, prev>>

Next ==
    \/ EnableRawMode \/ EnableRawModeErr
    \/ EnterAlternateScreen \/ EnterAlternateScreenErr
    \/ Clear \/ ClearErr
    \/ Size \/ SizeErr
    \/ CheckBounds
    \/ Draw \/ DrawErr
    \/ ReadErr
    \/ \E ev \in Events : HandleEvent(ev)
    \/ Drop

Spec == Init /\ [][Next]_vars

\* ------------------------------------------- two iterations as one step
\* the two-key sequences looked at: right then left, down then up, and two
\* different characters in either order
KeyPairs == {<<"l", "h">>, <<"j", "k">>, <<"q", "a">>, <<"a", "q">>}

\* the event of pressing a key without modifier
Press(code) == [ev |-> "Key", code |-> code, kind |-> "Press", modifiers |-> "NONE"]

\* match action of run, lines 167-222, nothing applied for None
apply(e, action) ==
    IF action = NoAction THEN [e |-> e, ovf |-> FALSE, quit |-> FALSE]
    ELSE run_match(e, action)

\* whether ev is a key the environment presses on editor e
Pressed(e, ev, n) ==
    LET action == handle_event(e, ev)
    IN action.t = "AddChar" =>
           (/\ typed + n < MaxTyped /\ Chars(e.buffer.lines) < MaxChars
            /\ action.arg \in TypedKeys)

\* run, lines 163-222, two consecutive iterations: the event ev1 is applied,
\* check_bounds and draw run (draw's writes succeed), then ev2 is read and
\* applied.  prev keeps both actions and the state before the first.
TwoKeys(ev1, ev2) ==
    /\ pc = "read"
    /\ cx <= MaxCoord /\ vtop <= MaxCoord
    /\ LET a1 == handle_event(Self, ev1)
           r1 == apply(Self, a1)
           c1 == check_bounds(r1.e)
           d1 == draw(c1.e)
           a2 == handle_event(c1.e, ev2)
       IN /\ Pressed(Self, ev1, 0)
          /\ ~r1.quit /\ ~(overflow_checks /\ (r1.ovf \/ c1.ovf \/ d1.ovf))
          /\ c1.e.cx <= MaxCoord /\ c1.e.vtop <= MaxCoord
          /\ Pressed(c1.e, ev2, IF a1.t = "AddChar" THEN 1 ELSE 0)
          /\ typed' = typed + (IF a1.t = "AddChar" THEN 1 ELSE 0)
                             + (IF a2.t = "AddChar" THEN 1 ELSE 0)
          /\ prev' = [act |-> a2, before |-> a1, cx |-> cx, cy |-> cy,
                      vtop |-> vtop, lines |-> buffer.lines]
          /\ Continue(apply(c1.e, a2), "applied2")
    /\ UNCHANGED <<Fixed, Terminal>>

NextPair == Next \/ \E keys \in KeyPairs : TwoKeys(Press(keys[1]), Press(keys[2]))

SpecPair == Init /\ [][NextPair]_vars

\* ------------------------------------------- check_bounds on any editor
\* check_bounds as a function of the editor: every prior cx, cy, vtop of a
\* bounded set (the u16 extreme included), reachable in a session or not.
CBBuffers == {BufScenario, BufEmpty, BufTwo, BufLong}

CBSizes == {<<2, 4>>, <<3, 5>>, <<40, 4>>, <<40, 5>>, <<24, 3>>, <<24, 10>>}

CBCoords == (0..MaxPos) \cup {U16 - 1}

InitCB ==
    /\ buffer \in CBBuffers /\ size \in CBSizes /\ term = size
    /\ cx \in CBCoords /\ cy \in CBCoords /\ vtop \in CBCoords
    /\ vleft = 0 /\ mode = "Normal"
    /\ overflow_checks \in BOOLEAN
    /\ raw_mode = TRUE /\ alt_screen = TRUE /\ releases = 0
    /\ pc = "cb" /\ outcome = "none" /\ typed = 0 /\ prev = NoPrev

Snapshot == [act |-> NoAction, before |-> NoAction, cx |-> cx, cy |-> cy,
             vtop |-> vtop, lines |-> buffer.lines]

\* the first run; prev keeps the editor it was given
CheckBoundsOnce ==
    /\ pc = "cb"
    /\ Continue(check_bounds(Self), "cb_once")
    /\ prev' = Snapshot
    /\ UNCHANGED <<Fixed, Terminal, typed>>

\* a second run, nothing having changed in between
CheckBoundsAgain ==
    /\ pc = "cb_once"
    /\ Continue(check_bounds(Self), "cb_twice")
    /\ UNCHANGED <<Fixed, Terminal, typed, prev>>

NextCB == CheckBoundsOnce \/ CheckBoundsAgain

SpecCB == InitCB /\ [][NextCB]_vars

\* ------------------------------------------------------------ the claims
\* C1 (as claimed): after one run of check_bounds on any prior cx, cy, vtop,
\* the run has completed with 0 <= cx < viewport_width and
\* 0 <= cy < viewport_height (= terminal height - 2).
C1_AfterCheckBoundsInViewport ==
    pc \in {"cb_once", "cb_twice"} =>
        /\ 0 <= cx /\ cx < vwidth(Self)
        /\ 0 <= cy /\ cy < size[2] - 2

\* C4: a second run of check_bounds, nothing having changed since the first,
\* completes and leaves cx, cy and vtop (and every other field) as the first
\* run left them.
C4_CheckBoundsIdempotent ==
    [][pc = "cb_once" =>
          /\ pc' = "cb_twice"
          /\ cx' = cx /\ cy' = cy /\ vtop' = vtop
          /\ UNCHANGED <<buffer, size, vleft, mode>>]_vars

\* C4 witness: a second run has completed after a first run that pulled both
\* cx and cy back, cy onto the last buffer line
C4_Witness ==
    /\ pc = "cb_twice" /\ prev.cx > cx /\ prev.cy > cy
    /\ vtop + cy = len(buffer) - 1

\* C2 (as claimed): however the process ends, the terminal is out of raw
\* mode and off the alternate screen, and Drop has run at most once (once if
\* raw mode was ever enabled).
C2_TerminalRestoredOnExit ==
    pc = "exited" => ~raw_mode /\ ~alt_screen /\ releases <= 1

\* the length of the buffer line vtop + cy, 0 when there is no such line
LineLenAt(ls, y) == IF y < Len(ls) THEN Len(ls[y + 1]) ELSE 0

\* C3 (as claimed): at the frame after a character key c was pressed in
\* Insert mode, the line that was under the cursor is the old line with c
\* inserted at the old cx, and cx is the old cx plus 1.
C3_TypedCharAdvancesCursor ==
    (pc = "draw" /\ prev.act.t = "AddChar") =>
        LET y == prev.vtop + prev.cy
        IN /\ y < Len(prev.lines)
           /\ buffer.lines[y + 1] = InsertAt(prev.lines[y + 1], prev.cx, prev.act.arg)
           /\ cx = prev.cx + 1

\* C5 (as claimed): whenever a frame is about to be drawn in a session, cx
\* is within [0, viewport_width) and cy within [0, viewport_height).
C5_CursorInViewportAtRender ==
    pc = "draw" =>
        /\ 0 <= cx /\ cx < size[1]
        /\ 0 <= cy /\ cy < size[2] - 2

\* C6 (as claimed): a completed bounds-correction of a session leaves vtop as
\* it was and vtop + cy at most buffer_length - 1, and exactly
\* buffer_length - 1 when vtop + cy was beyond the last line before it.
C6_CursorOnExistingLine ==
    [][(pc = "check_bounds" /\ pc' = "draw") =>
          /\ vtop' = vtop
          /\ vtop' + cy' <= len(buffer) - 1
          /\ (vtop + cy > len(buffer) - 1 => vtop' + cy' = len(buffer) - 1)]_vars

\* The rows of the two key tables of the specification (section 4.2).
NormalRow(ev) ==
    \/ ev.code \in {"q", "$", "0", "h", "Left", "l", "Right", "k", "Up", "j", "Down", "i"}
    \/ ev.code \in {"f", "b"} /\ ev.modifiers = "CONTROL"

InsertRow(ev) == ev.code = "Esc" \/ ev.code \in CharKeys

Unmapped(m, ev) ==
    \/ ev.ev # "Key"
    \/ ev.kind # "Press"
    \/ m = "Normal" /\ ~NormalRow(ev)
    \/ m = "Insert" /\ ~InsertRow(ev)

\* C7: in every state where run reads input, each event that is no row of the
\* current mode's table is classified as no action; and the iteration that
\* reads an event classified as no action changes neither mode, cx, cy, vtop,
\* vleft nor the buffer and goes on to the next iteration.
C7_UnmappedInputIsNoOp ==
    /\ [](pc = "read" =>
              \A ev \in Events :
                  Unmapped(mode, ev) => handle_event(Self, ev) = NoAction)
    /\ [][(pc = "read" /\ outcome' # "err" /\ prev'.act = NoAction) =>
              /\ UNCHANGED <<buffer, size, vtop, vleft, cx, cy, mode>>
              /\ pc' = "check_bounds" /\ outcome' = outcome]_vars

\* C7 witness: 'f' without the control modifier was read in Normal mode on a
\* buffer that PageDown would have scrolled, and the loop went on
C7_Witness ==
    /\ pc = "draw" /\ prev.act = NoAction /\ mode = "Normal"
    /\ len(buffer) = 20 /\ vtop = 3 /\ prev.vtop = 3 /\ cy = prev.cy /\ cx = prev.cx

\* the step of run that reads an event and applies an action of kind t
Applied(t) == pc = "read" /\ outcome' # "err" /\ prev'.act.t = t

\* C8 (as claimed): the loop of run is left only by an applied Quit or by a
\* failed render or read; nothing else ends it.
C8_LoopEndsOnlyOnQuitOrIoError ==
    [][(pc \in {"check_bounds", "draw", "read"} /\ pc' \notin {"check_bounds", "draw", "read"}) =>
          \/ Applied("Quit") /\ outcome' = "ok"
          \/ pc \in {"draw", "read"} /\ outcome' = "err"]_vars

\* C9: MoveDown on the last viewport row with buffer lines below the cursor
\* adds 1 to vtop and keeps cy = viewport_height - 1; above the last row it
\* adds 1 to cy and keeps vtop.
C9_MoveDownScrolls ==
    [][Applied("MoveDown") =>
          LET vh == size[2] - 2
          IN /\ (cy = vh - 1 /\ vtop + cy < len(buffer) - 1) =>
                    (pc' = "check_bounds" /\ vtop' = vtop + 1 /\ cy' = vh - 1)
             /\ (cy < vh - 1) =>
                    (pc' = "check_bounds" /\ cy' = cy + 1 /\ vtop' = vtop)]_vars

\* C9 witness: terminal height 10, buffer of 20 lines, MoveDown applied on
\* row 7 has scrolled by one and left cy on row 7
C9_Witness ==
    /\ pc = "check_bounds" /\ prev.act.t = "MoveDown"
    /\ size[2] = 10 /\ len(buffer) = 20
    /\ prev.cy = 7 /\ cy = 7 /\ vtop = prev.vtop + 1

\* C10: MoveToLineEnd sets cx to max(line_length - 1, 0), line_length being
\* the length of buffer line vtop + cy (the sum of the two u16 fields), and
\* changes neither cy nor vtop.
C10_MoveToLineEnd ==
    [][Applied("MoveToLineEnd") =>
          /\ pc' = "check_bounds"
          /\ cx' = Max(LineLenAt(buffer.lines, Wrap(vtop + cy)) - 1, 0)
          /\ cy' = cy /\ vtop' = vtop]_vars

\* C10 witness: on ["ab", "", "xyz"], after MoveDown twice from (0,0),
\* MoveToLineEnd has put the cursor at column 2 of row 2
C10_Witness ==
    /\ pc = "check_bounds" /\ prev.act.t = "MoveToLineEnd"
    /\ buffer.lines = BufScenario.lines /\ vtop = 0
    /\ prev.cx = 0 /\ prev.cy = 2 /\ cx = 2 /\ cy = 2

\* the step of TwoKeys that applies an action of type t1, then one of type t2
AppliedPair(t1, t2) == pc = "read" /\ prev'.before.t = t1 /\ prev'.act.t = t2

\* C11: from a position whose cx and cx + 1 are both columns of the current
\* line and of the viewport, MoveRight and then MoveLeft, with the loop's
\* check_bounds (and frame) between them, both complete and leave cx at its
\* original value and cy and vtop unchanged.
C11_RightLeftRoundTrip ==
    [][(/\ AppliedPair("MoveRight", "MoveLeft")
        /\ cx + 1 < LineLenAt(buffer.lines, vtop + cy)
        /\ cx + 1 < size[1])
       => (pc' = "applied2" /\ cx' = cx /\ cy' = cy /\ vtop' = vtop)]_vars

\* C11 witness: the pair has been applied at column 1 of the line "xyz"
C11_Witness ==
    /\ pc = "applied2" /\ prev.before.t = "MoveRight" /\ prev.act.t = "MoveLeft"
    /\ buffer.lines = BufScenario.lines /\ vtop = 0 /\ cy = 2
    /\ prev.cx = 1 /\ cx = 1

\* C12 (as claimed): whenever a status line is about to be painted, the mode
\* segment is " " + the uppercased mode name + " ", the position segment is
\* " {cx}:{cy} ", the number width - len(mode) - len(pos) - 2 is not negative,
\* and the printed file segment occupies exactly that many columns.
C12_StatusLineLayout ==
    pc = "draw" =>
        LET m == mode_segment(Self)
            p == pos_segment(Self)
            w == size[1] - Len(m) - Len(p) - 2
        IN /\ m = (IF mode = "Normal"
                   THEN <<" ", "N", "O", "R", "M", "A", "L", " ">>
                   ELSE <<" ", "I", "N", "S", "E", "R", "T", " ">>)
           /\ p = <<" ">> \o Decimal(cx) \o <<":">> \o Decimal(cy) \o <<" ">>
           /\ w >= 0
           /\ file_printed_len(Self) = w

\* C13 (as claimed): in every reachable state none of the subtractions of the
\* position arithmetic goes below zero and nothing aborts: terminal height - 2
\* while the loop runs; buffer_length - vtop - 1 and viewport_width - 1 where
\* check_bounds is about to compute them; buffer_length - 1 where PageDown
\* has just computed it.
C13_NoUnderflow ==
    /\ outcome # "panic"
    /\ pc \in {"check_bounds", "draw", "read"} => size[2] - 2 >= 0
    /\ (pc = "check_bounds" /\ Wrap(cy + vtop) >= len(buffer))
           => len(buffer) - vtop - 1 >= 0
    /\ (pc = "check_bounds" /\ cx >= vwidth(Self)) => vwidth(Self) - 1 >= 0
    /\ (/\ pc = "check_bounds" /\ prev.act.t = "PageDown"
        /\ ~(Len(prev.lines) > Wrap(prev.vtop + Wrap(size[2] - 2))))
           => Len(prev.lines) - 1 >= 0

\* C14: the Editor is built with mode Normal; the mode changes only in a step
\* that applies EnterMode(m), after which mode = m; the keys classify to
\* EnterMode only as 'i' in Normal mode (to Insert) and Escape in Insert mode
\* (to Normal); and a step applying EnterMode leaves cx, cy, vtop, vleft and
\* the buffer unchanged.
C14_ModeMachine ==
    /\ [][/\ (pc = "new_size" /\ pc' = "check_bounds") => mode' = "Normal"
          /\ mode' # mode =>
                 /\ Applied("EnterMode")
                 /\ \/ mode = "Normal" /\ mode' = "Insert"
                    \/ mode = "Insert" /\ mode' = "Normal"
          /\ Applied("EnterMode") =>
                 /\ pc' = "check_bounds" /\ mode' = prev'.act.arg
                 /\ UNCHANGED <<cx, cy, vtop, vleft, buffer>>]_vars
    /\ [](pc = "read" =>
              \A ev \in Events :
                  handle_event(Self, ev).t = "EnterMode" =>
                      \/ /\ mode = "Normal" /\ ev.code = "i"
                         /\ handle_event(Self, ev).arg = "Insert"
                      \/ /\ mode = "Insert" /\ ev.code = "Esc"
                         /\ handle_event(Self, ev).arg = "Normal")

\* C14 witness: Escape has brought the editor back to Normal mode after a
\* character was typed, the cursor staying away from column 0
C14_Witness ==
    /\ pc = "check_bounds" /\ prev.act = [t |-> "EnterMode", arg |-> "Normal"]
    /\ mode = "Normal" /\ typed = 1 /\ cx = 2 /\ prev.cx = 2

\* C15: an iteration of the loop runs check_bounds, then draw, then the read,
\* the classification and the application of the action, in that order: a
\* frame is entered only from check_bounds and with the editor check_bounds
\* computes, it is drawn and the read is reached with that editor unchanged
\* (which check_bounds would leave as it is), and a handled event leads to
\* check_bounds again, whatever the action (AddChar and no action included).
C15_IterationOrder ==
    [][/\ pc' = "draw" => (pc = "check_bounds" /\ Self' = check_bounds(Self).e)
       /\ pc = "draw" => check_bounds(Self).e = Self
       /\ pc' = "read" => (pc = "draw" /\ UNCHANGED editor)
       /\ (pc = "read" /\ pc' \notin {"read", "drop"}) =>
              /\ pc' = "check_bounds"
              /\ Self' = apply(Self, prev'.act).e
              /\ \E ev \in Events : prev'.act = handle_event(Self, ev)]_vars

\* C15 witness: the frame after an AddChar has been drawn, with the cursor
\* where check_bounds put it, not where AddChar left it
C15_Witness ==
    /\ pc = "read" /\ prev.act.t = "AddChar" /\ cx = prev.cx
    /\ buffer.lines # prev.lines

\* C16 (as claimed): a step applying PageDown completes; it adds the viewport
\* height to vtop when the buffer has more lines than vtop + viewport_height
\* and sets vtop to buffer_length - 1 otherwise; it leaves cx and cy as they
\* are; afterwards vtop <= buffer_length - 1, and at vtop = buffer_length - 1
\* PageDown changes nothing.
C16_PageDown ==
    [][Applied("PageDown") =>
          LET vh == size[2] - 2
          IN /\ pc' = "check_bounds"
             /\ len(buffer) > vtop + vh => vtop' = vtop + vh
             /\ ~(len(buffer) > vtop + vh) => vtop' = len(buffer) - 1
             /\ cx' = cx /\ cy' = cy
             /\ vtop' <= len(buffer) - 1
             /\ vtop = len(buffer) - 1 => vtop' = vtop]_vars

\* C17: a step applying MoveUp completes; with cy = 0 it decreases vtop by 1
\* when vtop > 0 and changes nothing when vtop = 0; with cy > 0 it decreases
\* cy by 1 and leaves vtop; it never changes cx (nor the buffer or the mode)
\* and never takes cy or vtop below 0.
C17_MoveUp ==
    [][Applied("MoveUp") =>
          /\ pc' = "check_bounds"
          /\ (cy = 0 /\ vtop > 0) => (vtop' = vtop - 1 /\ cy' = 0)
          /\ (cy = 0 /\ vtop = 0) => (vtop' = 0 /\ cy' = 0)
          /\ cy > 0 => (cy' = cy - 1 /\ vtop' = vtop)
          /\ cx' = cx /\ UNCHANGED <<buffer, mode, vleft, size>>
          /\ cy' >= 0 /\ vtop' >= 0 /\ cy' <= cy /\ vtop' <= vtop]_vars

\* C17 witness: MoveUp on the first screen row has scrolled the viewport up
C17_Witness ==
    /\ pc = "check_bounds" /\ prev.act.t = "MoveUp"
    /\ prev.cy = 0 /\ cy = 0 /\ prev.vtop = 3 /\ vtop = 2 /\ cx = prev.cx

\* C18 (as claimed): in Insert mode with the cursor on a line of the buffer,
\* two character keys c1, c2 pressed in succession, with the loop's
\* check_bounds (and frame) between them, are both applied and leave the line
\* as it was with c1 and c2 put in next to each other, c1 first.
C18_TypingOrderPreserved ==
    [][(AppliedPair("AddChar", "AddChar") /\ vtop + cy < Len(buffer.lines)) =>
          LET y == vtop + cy
              c1 == prev'.before.arg
              c2 == prev'.act.arg
          IN /\ pc' = "applied2"
             /\ \E k \in 0..Len(buffer.lines[y + 1]) :
                    buffer'.lines[y + 1] =
                        InsertAt(InsertAt(buffer.lines[y + 1], k, c1), k + 1, c2)]_vars

\* C19: the buffer changes only in a step that applies AddChar, taken in
\* Insert mode (so not in check_bounds, draw or any other step); no event
\* classifies to AddChar in Normal mode and the action of no event changes
\* the buffer there; and in Insert mode every event classifies to AddChar,
\* EnterMode or nothing, never to Quit or a movement.
C19_BufferChangesOnlyByTyping ==
    /\ [][buffer' # buffer => (Applied("AddChar") /\ mode = "Insert")]_vars
    /\ [](pc = "read" =>
              \A ev \in Events :
                  LET action == handle_event(Self, ev)
                  IN /\ action.t = "AddChar" => mode = "Insert"
                     /\ mode = "Normal" => apply(Self, action).e.buffer = buffer
                     /\ mode = "Insert" =>
                            action.t \in {"None", "EnterMode", "AddChar"})

\* C19 witness: the character 'q' typed in Insert mode has changed the buffer
C19_Witness ==
    /\ pc = "check_bounds" /\ mode = "Insert"
    /\ prev.act = [t |-> "AddChar", arg |-> "q"]
    /\ buffer.lines # prev.lines /\ Chars(buffer.lines) = Chars(prev.lines) + 1

=============================================================================
